---- MODULE Spec2Model ----
(***************************************************************************)
(* Model of the house-price predictor (src/predict.py) and of the          *)
(* Streamlit script that calls it (src/app.py).                            *)
(*                                                                         *)
(* Conventions.                                                            *)
(*  - A Python dict is a sequence of [key, value] items in insertion       *)
(*    order; a one-row DataFrame is a sequence of [name, value] columns.   *)
(*  - Prices and attributions are integers counting hundredths, so that    *)
(*    the "%.2f" renderings of the code are exact.                         *)
(*  - Strings are ASCII: the Chinese labels and category values of the     *)
(*    source are transliterated.                                           *)
(*  - A Python value whose type matters is a record [type, val].           *)
(***************************************************************************)
EXTENDS Integers, Sequences, FiniteSets, TLC

VARIABLES
    files,          \* paths that exist on disk
    predictor,      \* the HousePricePredictor object, or NoPredictor
    ctorArgs,       \* the arguments of the last HousePricePredictor(...) call
    raised,         \* the exception the last predictor call raised, or NoError
    case_dict,      \* the caller's RawCase dict, passed by reference
    caseBefore,     \* its items when the caller built it
    X_case,         \* the frame the last _preprocess returned
    explanation,    \* the last shap Explanation: [base, values]
    top_n,          \* the top_n of the last generate_chinese_explanation
    lines,          \* the lines of the last generate_chinese_explanation
    result,         \* the value the last predict call returned
    session_result, \* st.session_state.result of the app
    appError,       \* the exception that ended the last script run
    lastOp          \* the operation that ran last

vars == <<files, predictor, ctorArgs, raised, case_dict, caseBefore, X_case,
          explanation, top_n, lines, result, session_result, appError, lastOp>>

----------------------------------------------------------------------------
(* Bounds and input domains *)

MaxTopN == 6

DefaultModelPath == "model.pkl"
DefaultFeaturePath == "model_features.pkl"
AltFeaturePath == "alt/features.pkl"
AltModelPath == "alt/model.pkl"

Paths == {DefaultModelPath, DefaultFeaturePath, AltFeaturePath, AltModelPath}

\* the content of the feature artifact: the trained model's column list
ModelFeatures ==
    <<"floor", "district_TaipeiNeihu", "district_TaipeiShilin",
      "building_type_Tower", "main_use_Home">>

CategoricalCols == <<"district", "building_type", "main_use">>

\* category values a caller may send: trained ones, an unseen one, and ""
CategoryVals ==
    {"TaipeiNeihu", "TaipeiShilin", "Tower", "Home", "Elsewhere", ""}

PriceVals == {3125, 5850}
BaseVals == {4000}
AttrVals == {-250, -125, 0, 125}

DefaultArgs ==
    [model_path |-> DefaultModelPath, feature_path |-> DefaultFeaturePath]

NoPredictor == [kind |-> "none"]
NoError == [exc |-> "none", names |-> ""]
NoExplanation == [base |-> 0, values |-> <<>>]
PyNone == [type |-> "NoneType", val |-> 0]

PyFloat(x) == [type |-> "float", val |-> x]

----------------------------------------------------------------------------
(* Python dict and DataFrame helpers *)

Item(k, v) == [key |-> k, value |-> v]
Col(n, v) == [name |-> n, value |-> v]

Keys(d) == {d[i].key : i \in DOMAIN d}
Get(d, k) == d[CHOOSE i \in DOMAIN d : d[i].key = k].value
ColumnNames(df) == [i \in DOMAIN df |-> df[i].name]
SeqToSet(s) == {s[i] : i \in DOMAIN s}

\* dict.setdefault(k, v): inserts the key when it is absent, in place
SetDefault(d, k, v) == IF k \in Keys(d) THEN d ELSE Append(d, Item(k, v))

RECURSIVE SetDefaults(_, _, _)
SetDefaults(d, cols, i) ==
    IF i > Len(cols) THEN d
    ELSE SetDefaults(SetDefault(d, cols[i], ""), cols, i + 1)

\* pd.DataFrame([case_dict]): one column per key, in key order
DataFrame(d) == [i \in DOMAIN d |-> Col(d[i].key, d[i].value)]

\* pd.get_dummies(df, columns=cols, drop_first=False) on a one-row frame:
\* the other columns first, then one column "<col>_<value>" per encoded column,
\* holding 1 (True in recent pandas, which equals 1). Category values are
\* strings here, so <value> needs no conversion.
GetDummies(df, cols) ==
    LET encoded == SeqToSet(cols)
        IsKept(c) == c.name \notin encoded
        ValueOf(n) == df[CHOOSE i \in DOMAIN df : df[i].name = n].value
    IN  SelectSeq(df, IsKept)
        \o [i \in DOMAIN cols |-> Col(cols[i] \o "_" \o ValueOf(cols[i]), 1)]

\* the columns of features that df lacks, added with value 0
AddMissing(df, features) ==
    LET have == SeqToSet(ColumnNames(df))
        IsMissing(n) == n \notin have
        missing_cols == SelectSeq(features, IsMissing)
    IN  df \o [i \in DOMAIN missing_cols |-> Col(missing_cols[i], 0)]

\* df[features]: for each requested name, every column of df with that name
RECURSIVE SelectColumns(_, _, _)
SelectColumns(df, features, i) ==
    IF i > Len(features) THEN <<>>
    ELSE LET Named(c) == c.name = features[i]
         IN  SelectSeq(df, Named) \o SelectColumns(df, features, i + 1)

\* HousePricePredictor._preprocess: the dict as it leaves, and the frame
Preprocess(p, d) ==
    LET filled == SetDefaults(d, p.categorical_cols, 1)
        df == AddMissing(GetDummies(DataFrame(filled), p.categorical_cols),
                         p.model_features)
    IN  [case |-> filled, X |-> SelectColumns(df, p.model_features, 1)]

----------------------------------------------------------------------------
(* generate_chinese_explanation *)

Abs(x) == IF x < 0 THEN -x ELSE x

RECURSIVE SumSeq(_)
SumSeq(s) == IF s = <<>> THEN 0 ELSE Head(s) + SumSeq(Tail(s))

Min(a, b) == IF a < b THEN a ELSE b

\* f"{x:.2f}" of a value given in hundredths
Fmt2(h) ==
    LET a == Abs(h)
        frac == a % 100
    IN  (IF h < 0 THEN "-" ELSE "") \o ToString(a \div 100) \o "."
        \o (IF frac < 10 THEN "0" ELSE "") \o ToString(frac)

\* col.startswith(prefix), over the category vocabulary of the model
Startswith(col, prefix) == \E v \in CategoryVals : col = prefix \o v
\* col.replace(prefix, "") for such a col
Stripped(col, prefix) == CHOOSE v \in CategoryVals : col = prefix \o v

\* HousePricePredictor._pretty_name, called with a value
PrettyName(col, value) ==
    IF Startswith(col, "district_")
    THEN "district: " \o Stripped(col, "district_")
    ELSE IF Startswith(col, "building_type_")
    THEN "building type: " \o Stripped(col, "building_type_")
    ELSE IF Startswith(col, "main_use_")
    THEN "main use: " \o Stripped(col, "main_use_")
    ELSE LET name ==
                 CASE col = "building_age" -> "building age (years)"
                   [] col = "building_area_sqm" -> "transferred area (sqm)"
                   [] col = "main_area" -> "main area (ping)"
                   [] col = "balcony_area" -> "balcony area (ping)"
                   [] col = "floor" -> "floor"
                   [] col = "total_floors" -> "total floors"
                   [] col = "has_parking" -> "has parking"
                   [] col = "has_elevator" -> "has elevator"
                   [] OTHER -> col
         IN  name \o " = " \o ToString(value)

\* zip(X_case.columns, sv, X_case.iloc[0]): stops at the shortest
Zip(X, sv) ==
    [i \in 1..Min(Len(X), Len(sv)) |->
        [col |-> X[i].name, shap_val |-> sv[i], data |-> X[i].value]]

\* a variant that places an item before the items of equal magnitude
InsertBeforeTies(sorted, x) ==
    LET k == Cardinality({i \in DOMAIN sorted :
                            Abs(sorted[i].shap_val) > Abs(x.shap_val)})
    IN  SubSeq(sorted, 1, k) \o <<x>> \o SubSeq(sorted, k + 1, Len(sorted))

\* one step of the stable descending sort: x goes after every item whose
\* magnitude is at least its own
InsertByAbs(sorted, x) ==
    LET k == Cardinality({i \in DOMAIN sorted :
                            Abs(sorted[i].shap_val) >= Abs(x.shap_val)})
    IN  SubSeq(sorted, 1, k) \o <<x>> \o SubSeq(sorted, k + 1, Len(sorted))

\* sorted(items, key=lambda x: abs(x[1]), reverse=True)
RECURSIVE SortedByAbs(_, _)
SortedByAbs(items, i) ==
    IF i = 0 THEN <<>>
    ELSE InsertByAbs(SortedByAbs(items, i - 1), items[i])

\* a variant that keeps one item too many
TopItemsOneMore(ranked, n) == SubSeq(ranked, 1, Min(n + 1, Len(ranked)))

\* ranked[:top_n], top_n positive
TopItems(ranked, n) == SubSeq(ranked, 1, Min(n, Len(ranked)))

Line(kind, label, direction, amount) ==
    [kind |-> kind, label |-> label, direction |-> direction, amount |-> amount]

BaseLine(base) == Line("base", "", "", Fmt2(base))
PredLine(pred) == Line("pred", "", "", Fmt2(pred))
BlankLine == Line("blank", "", "", "")
HeadingLine == Line("heading", "", "", "")

\* the line of one item
FactorLine(col, shap_val, data) ==
    Line("factor", PrettyName(col, data),
         IF shap_val > 0 THEN "raise" ELSE "lower",
         Fmt2(Abs(shap_val)))

\* a variant whose stated prediction adds up the narrated items only
ExplanationLinesNarratedSum(X, expl, n) ==
    LET sv == expl.values
        items == TopItems(SortedByAbs(Zip(X, sv), Len(Zip(X, sv))), n)
        pred == expl.base + SumSeq([i \in DOMAIN items |-> items[i].shap_val])
    IN  <<BaseLine(expl.base), PredLine(pred), BlankLine, HeadingLine>>
        \o [i \in DOMAIN items |->
               FactorLine(items[i].col, items[i].shap_val, items[i].data)]

\* the body of generate_chinese_explanation after shap_explain returned
ExplanationLines(X, expl, n) ==
    LET sv == expl.values
        pred == expl.base + SumSeq(sv)
        items == TopItems(SortedByAbs(Zip(X, sv), Len(Zip(X, sv))), n)
    IN  <<BaseLine(expl.base), PredLine(pred), BlankLine, HeadingLine>>
        \o [i \in DOMAIN items |->
               FactorLine(items[i].col, items[i].shap_val, items[i].data)]

\* what the attribution oracle may return for a frame of n columns: one value
\* per column, or (a collaborator built against another schema) one fewer or
\* one more
OracleValues(n) ==
    UNION {[1..m -> AttrVals] : m \in {k \in {n - 1, n, n + 1} : k >= 0}}

Explainer(X) ==
    {[base |-> b, values |-> sv] : b \in BaseVals, sv \in OracleValues(Len(X))}

----------------------------------------------------------------------------
(* RawCase inputs *)

Opt(k, vals) == {<<>>} \cup {<<Item(k, v)>> : v \in vals}

RawCases ==
    {a \o b \o c \o d \o e \o f :
        a \in Opt("district", {"TaipeiNeihu", "TaipeiShilin", "Elsewhere"}),
        b \in Opt("building_type", {"Tower", "Elsewhere"}),
        c \in Opt("main_use", {"Home"}),
        d \in Opt("floor", {8}),
        e \in Opt("note", {"x"}),
        f \in Opt("district_TaipeiNeihu", {5})}

----------------------------------------------------------------------------
(* Operations *)

Constructed ==
    [kind |-> "predictor",
     model_features |-> ModelFeatures,
     categorical_cols |-> CategoricalCols]

\* the caller builds a RawCase
NewRequest(c) ==
    /\ predictor # NoPredictor
    /\ case_dict' = c
    /\ caseBefore' = c
    /\ X_case' = <<>>
    /\ explanation' = NoExplanation
    /\ top_n' = 0
    /\ lines' = <<>>
    /\ result' = PyNone
    /\ lastOp' = "request"
    /\ UNCHANGED <<files, predictor, ctorArgs, raised, session_result,
                   appError>>

\* HousePricePredictor.predict. The model is external: it may return any price
\* for the frame it is given.
Predict ==
    /\ predictor # NoPredictor
    /\ LET pre == Preprocess(predictor, case_dict)
       IN  /\ case_dict' = pre.case
           /\ X_case' = pre.X
    /\ \E price \in PriceVals : result' = PyFloat(price)
    /\ raised' = NoError
    /\ lastOp' = "predict"
    /\ UNCHANGED <<files, predictor, ctorArgs, caseBefore, explanation,
                   top_n, lines, session_result, appError>>

InitAlign ==
    /\ files = Paths
    /\ predictor = Constructed
    /\ ctorArgs = DefaultArgs
    /\ raised = NoError
    /\ case_dict \in RawCases
    /\ caseBefore = case_dict
    /\ X_case = <<>>
    /\ explanation = NoExplanation
    /\ top_n = 0
    /\ lines = <<>>
    /\ result = PyNone
    /\ session_result = PyNone
    /\ appError = NoError
    /\ lastOp = "request"

NextAlign ==
    \/ \E c \in RawCases : NewRequest(c)
    \/ Predict

SpecAlign == InitAlign /\ [][NextAlign]_vars

\* One explanation call is explored per request: a later call on the same dict
\* starts from the dict an earlier call left, with every categorical key set.
Fresh == lastOp = "request"

\* HousePricePredictor.shap_explain
ShapExplain ==
    /\ predictor # NoPredictor
    /\ Fresh
    /\ LET pre == Preprocess(predictor, case_dict)
       IN  /\ case_dict' = pre.case
           /\ X_case' = pre.X
           /\ explanation' \in Explainer(pre.X)
    /\ raised' = NoError
    /\ lastOp' = "shap_explain"
    /\ UNCHANGED <<files, predictor, ctorArgs, caseBefore, top_n, lines,
                   result, session_result, appError>>

\* HousePricePredictor.generate_chinese_explanation
GenerateChineseExplanation(n) ==
    /\ predictor # NoPredictor
    /\ Fresh
    /\ LET pre == Preprocess(predictor, case_dict)
       IN  /\ case_dict' = pre.case
           /\ X_case' = pre.X
           /\ \E expl \in Explainer(pre.X) :
                 /\ explanation' = expl
                 /\ lines' = ExplanationLines(pre.X, expl, n)
    /\ top_n' = n
    /\ raised' = NoError
    /\ lastOp' = "explain"
    /\ UNCHANGED <<files, predictor, ctorArgs, caseBefore, result,
                   session_result, appError>>

ExplainCases ==
    { <<>>,
      <<Item("district", "TaipeiNeihu"), Item("building_type", "Tower"),
        Item("main_use", "Home"), Item("floor", 8)>>,
      <<Item("district", "Elsewhere"), Item("floor", 8)>> }

InitExplain ==
    /\ files = Paths
    /\ predictor = Constructed
    /\ ctorArgs = DefaultArgs
    /\ raised = NoError
    /\ case_dict \in ExplainCases
    /\ caseBefore = case_dict
    /\ X_case = <<>>
    /\ explanation = NoExplanation
    /\ top_n = 0
    /\ lines = <<>>
    /\ result = PyNone
    /\ session_result = PyNone
    /\ appError = NoError
    /\ lastOp = "request"

NextExplain ==
    \/ \E c \in ExplainCases : NewRequest(c)
    \/ ShapExplain
    \/ \E n \in 1..MaxTopN : GenerateChineseExplanation(n)

SpecExplain == InitExplain /\ [][NextExplain]_vars

----------------------------------------------------------------------------
(* Construction, and the Streamlit script *)

FileNotFoundError(path) == [exc |-> "FileNotFoundError", names |-> path]
TypeError == [exc |-> "TypeError", names |-> ""]

\* HousePricePredictor.__init__: the exception it raises, or NoError
InitRaises(fs, model_path, feature_path) ==
    IF model_path \notin fs THEN FileNotFoundError(model_path)
    ELSE IF feature_path \notin fs THEN FileNotFoundError("model_features.pkl")
    ELSE NoError

\* HousePricePredictor(model_path, feature_path)
Construct(model_path, feature_path) ==
    /\ predictor = NoPredictor
    /\ ctorArgs' = [model_path |-> model_path, feature_path |-> feature_path]
    /\ raised' = InitRaises(files, model_path, feature_path)
    /\ predictor' = IF raised' = NoError THEN Constructed ELSE NoPredictor
    /\ lastOp' = "construct"
    /\ UNCHANGED <<files, case_dict, caseBefore, X_case, explanation, top_n,
                   lines, result, session_result, appError>>

\* the part of CITY_TOWN_MAP the model offers in the sidebar
CITY_TOWN_MAP ==
    [Taipei |-> <<"Shilin", "Neihu">>, NewTaipei |-> <<"Banqiao">>]

Cities == DOMAIN CITY_TOWN_MAP

\* the sidebar selections of one script run
Widgets ==
    {[city |-> c, town |-> t, building_type |-> b, has_parking |-> hp] :
        c \in Cities, t \in {"Shilin", "Neihu", "Banqiao"},
        b \in {"Tower", "Apartment"}, hp \in {"yes", "no"}}

ValidWidgets == {w \in Widgets : w.town \in SeqToSet(CITY_TOWN_MAP[w.city])}

\* case_dict as the script builds it; the number inputs keep their defaults
AppCase(w) ==
    <<Item("district", w.city \o w.town),
      Item("building_type", w.building_type),
      Item("main_use", "Home"),
      Item("building_age", 20),
      Item("main_area", 30),
      Item("balcony_area", 5),
      Item("floor", 5),
      Item("total_floors", 10),
      Item("has_parking", IF w.has_parking = "yes" THEN 1 ELSE 0),
      Item("has_elevator", 1)>>

\* result["predicted_price"] and the other subscripts of the display step:
\* the exception they raise on this value, or NoError
SubscriptRaises(value) == IF value.type = "dict" THEN NoError ELSE TypeError

\* one run of the script: load_predictor (cached once it succeeded), the
\* sidebar, the button, and the display of session_state.result
AppRun(w, pressed) ==
    LET loadError ==
            IF predictor # NoPredictor THEN NoError
            ELSE InitRaises(files, DefaultModelPath, DefaultFeaturePath)
    IN  IF loadError # NoError
        THEN /\ appError' = loadError
             /\ raised' = loadError
             /\ ctorArgs' = DefaultArgs
             /\ lastOp' = "app_run"
             /\ UNCHANGED <<files, predictor, case_dict, caseBefore, X_case,
                            explanation, top_n, lines, result, session_result>>
        ELSE /\ predictor' = Constructed
             /\ ctorArgs' = IF predictor = NoPredictor THEN DefaultArgs
                            ELSE ctorArgs
             /\ raised' = NoError
             /\ caseBefore' = AppCase(w)
             /\ IF pressed
                THEN LET pre == Preprocess(Constructed, AppCase(w))
                     IN  /\ case_dict' = pre.case
                         /\ X_case' = pre.X
                         /\ \E price \in PriceVals :
                               /\ result' = PyFloat(price)
                               /\ session_result' = PyFloat(price)
                ELSE /\ case_dict' = AppCase(w)
                     /\ UNCHANGED <<X_case, result, session_result>>
             /\ appError' = IF session_result' # PyNone
                            THEN SubscriptRaises(session_result')
                            ELSE NoError
             /\ lastOp' = "app_run"
             /\ UNCHANGED <<files, explanation, top_n, lines>>

Init ==
    /\ files \in SUBSET Paths
    /\ predictor = NoPredictor
    /\ ctorArgs = DefaultArgs
    /\ raised = NoError
    /\ case_dict = <<>>
    /\ caseBefore = <<>>
    /\ X_case = <<>>
    /\ explanation = NoExplanation
    /\ top_n = 0
    /\ lines = <<>>
    /\ result = PyNone
    /\ session_result = PyNone
    /\ appError = NoError
    /\ lastOp = "start"

Next ==
    \/ \E mp \in {DefaultModelPath, AltModelPath},
          fp \in {DefaultFeaturePath, AltFeaturePath} : Construct(mp, fp)
    \/ \E w \in ValidWidgets, pressed \in BOOLEAN : AppRun(w, pressed)

Spec == Init /\ [][Next]_vars

(* C8: constructing with a feature_path that does not exist raises an error
   that names that path, and leaves no predictor, whether or not the model
   file exists. *)
C8_MissingSchemaNamed ==
    (lastOp = "construct" /\ ctorArgs.feature_path \notin files) =>
        /\ raised.exc = "FileNotFoundError"
        /\ raised.names = ctorArgs.feature_path
        /\ predictor = NoPredictor

(* C9: what predict stored in session_state.result has the fields the display
   step reads, so no script run ends in an error of the display step. *)
C9_DisplayNeverFails ==
    lastOp = "app_run" =>
        /\ appError.exc # "TypeError"
        /\ session_result # PyNone => session_result.type = "dict"

----------------------------------------------------------------------------
(* C1: _preprocess returns exactly the schema's columns, in schema order,
   for every RawCase, extra attribute names included. *)
C1_SchemaFidelity ==
    lastOp = "predict" => ColumnNames(X_case) = predictor.model_features

(* C2: every returned column holds the reference value: an indicator column
   "<attr>_<v>" holds 1 exactly when RawCase[attr] = v and 0 otherwise, a
   numeric column holds the RawCase value, or 0 when the RawCase lacks it;
   and a RawCase with an unseen category value aligns like the RawCase with
   that attribute omitted. *)
IndicatorOf(col) ==
    {av \in SeqToSet(CategoricalCols) \X CategoryVals :
        col = av[1] \o "_" \o av[2]}

RefValue(raw, col) ==
    IF IndicatorOf(col) # {}
    THEN IF \E av \in IndicatorOf(col) :
                av[1] \in Keys(raw) /\ Get(raw, av[1]) = av[2]
         THEN 1 ELSE 0
    ELSE IF col \in Keys(raw) THEN Get(raw, col) ELSE 0

Without(raw, k) == LET Other(it) == it.key # k IN SelectSeq(raw, Other)

Unseen(raw, attr) ==
    /\ attr \in Keys(raw)
    /\ (attr \o "_" \o Get(raw, attr)) \notin SeqToSet(ModelFeatures)

C2_ReferenceValues ==
    lastOp = "predict" =>
        /\ \A i \in DOMAIN X_case :
               X_case[i].value = RefValue(caseBefore, X_case[i].name)
        /\ \A attr \in SeqToSet(CategoricalCols) :
               Unseen(caseBefore, attr) =>
                   Preprocess(predictor, Without(caseBefore, attr)).X = X_case

(* C10: a call leaves the caller's RawCase with the keys and values it had,
   and leaves model_features and categorical_cols as constructed. *)
C10_NoSideEffects ==
    lastOp \in {"predict", "shap_explain", "explain"} =>
        /\ case_dict = caseBefore
        /\ predictor.model_features = ModelFeatures
        /\ predictor.categorical_cols = CategoricalCols

----------------------------------------------------------------------------
(* Claims about generate_chinese_explanation, checked under SpecExplain *)

Explained == lastOp = "explain"
\* the oracle kept its contract: one attribution per column of the frame
WellFormed == Len(explanation.values) = Len(X_case)
Prediction == explanation.base + SumSeq(explanation.values)
FactorLines == SubSeq(lines, 5, Len(lines))
\* the columns the oracle gave an attribution other than 0
NonZeroColumns ==
    {i \in DOMAIN X_case \cap DOMAIN explanation.values :
        explanation.values[i] # 0}

Precedes(j, i) ==
    LET sv == explanation.values
    IN  \/ Abs(sv[j]) > Abs(sv[i])
        \/ Abs(sv[j]) = Abs(sv[i]) /\ j < i

Rank(i) == 1 + Cardinality({j \in DOMAIN X_case : Precedes(j, i)})

C4_StableRanking ==
    (Explained /\ WellFormed) =>
        /\ Len(FactorLines) = Min(top_n, Len(X_case))
        /\ \A i \in DOMAIN X_case :
               Rank(i) <= top_n =>
                   FactorLines[Rank(i)] =
                       FactorLine(X_case[i].name, explanation.values[i],
                                  X_case[i].value)

\* top_n cuts between two columns of equal magnitude
C4_TieAtCut ==
    /\ Explained /\ WellFormed
    /\ \E i, j \in DOMAIN X_case :
          /\ i < j
          /\ Abs(explanation.values[i]) = Abs(explanation.values[j])
          /\ Rank(i) = top_n
          /\ Rank(j) = top_n + 1

(* C5: at most top_n factor lines, and fewer than top_n only when fewer than
   top_n columns have a nonzero attribution. *)
C5_TopNBound ==
    Explained =>
        /\ Len(FactorLines) <= top_n
        /\ \A i \in DOMAIN FactorLines : FactorLines[i].kind = "factor"
        /\ Len(FactorLines) < top_n => Cardinality(NonZeroColumns) < top_n

C5_FewerThanTopN ==
    /\ Explained /\ WellFormed
    /\ Len(FactorLines) < top_n
    /\ Len(FactorLines) > 0

(* C6: a factor line says "raise" exactly for an attribution above 0 and
   "lower" exactly for one below 0, with the absolute attribution as the
   amount; a column whose attribution is 0 has no line. *)
C6_DirectionAndNoZero ==
    (Explained /\ WellFormed) =>
        \A i \in DOMAIN X_case :
            LET sv == explanation.values[i]
                narrated == \E k \in DOMAIN FactorLines :
                    FactorLines[k].label = PrettyName(X_case[i].name,
                                                      X_case[i].value)
                line == FactorLines[CHOOSE k \in DOMAIN FactorLines :
                    FactorLines[k].label = PrettyName(X_case[i].name,
                                                      X_case[i].value)]
            IN  narrated =>
                    /\ sv # 0
                    /\ line.direction = "raise" <=> sv > 0
                    /\ line.direction = "lower" <=> sv < 0
                    /\ line.amount = Fmt2(Abs(sv))

(* C7: an attribution array whose length differs from the frame's columns
   makes generate_chinese_explanation fail with a consistency error and
   return no explanation. *)
C7_MismatchRejected ==
    (Explained /\ ~WellFormed) =>
        /\ raised.exc = "ConsistencyError"
        /\ lines = <<>>

====
